---- MODULE Spec2Model ----
(***************************************************************************)
(* A model of fcerini/audio-capture: the two RTP senders (L16 pass-through *)
(* in main.go, G.711 mu-law in the second sender file), the WAV-writing    *)
(* receiver and the printing receiver (server/main.go).                    *)
(*                                                                         *)
(* Specifications:                                                         *)
(*   SpecPayload  the payloaders as pure functions of (mtu, payload)       *)
(*   SpecSend     one sender process: main task and streaming task         *)
(*   SpecRecv     one receiver process: main task and receive task         *)
(*   SpecE2E      an L16 sender linked to the WAV receiver over a network  *)
(*                that delivers every datagram, in order                   *)
(***************************************************************************)
EXTENDS Integers, Sequences, FiniteSets, TLC

\* ------------------------------------------------------------------------
\* Fixed-width integer arithmetic (Go's int16, uint16, uint32, byte)
\* ------------------------------------------------------------------------

Pow16 == 256 * 256

\* The two's-complement bit pattern of an int16, as a number in 0..65535.
U16(x) == x % Pow16

\* The int16 whose bit pattern is (the low 16 bits of) x: Go's int16(x)
\* conversion and the wrap-around of int16 arithmetic.
ToInt16(x) == LET u == x % Pow16 IN IF u >= 32768 THEN u - Pow16 ELSE u

RECURSIVE BitAnd(_, _)
\* Go's & on two non-negative bit patterns.
BitAnd(a, b) ==
    IF a = 0 \/ b = 0 THEN 0
    ELSE (IF a % 2 = 1 /\ b % 2 = 1 THEN 1 ELSE 0) + 2 * BitAnd(a \div 2, b \div 2)

RECURSIVE BitOr(_, _)
\* Go's | on two non-negative bit patterns.
BitOr(a, b) ==
    IF a = 0 THEN b
    ELSE IF b = 0 THEN a
    ELSE (IF a % 2 = 1 \/ b % 2 = 1 THEN 1 ELSE 0) + 2 * BitOr(a \div 2, b \div 2)

RECURSIVE Pow2(_)
Pow2(k) == IF k = 0 THEN 1 ELSE 2 * Pow2(k - 1)

\* Go's x >> k on an int16: an arithmetic shift, i.e. floor division.
Shr16(x, k) == x \div Pow2(k)

\* A uint32 is held as its two 16-bit halves, [hi, lo]: the model checker's
\* integers are 32-bit signed, so 2^32 itself is not a number it can hold.
U32(hi, lo) == [hi |-> hi, lo |-> lo]

\* Go's t + n on uint32 (wrapping at 2^32), for 0 <= n < 2^16.
Add32(t, n) ==
    LET s == t.lo + n
    IN  [hi |-> (t.hi + s \div Pow16) % Pow16, lo |-> s % Pow16]

\* ------------------------------------------------------------------------
\* The program's constants
\* ------------------------------------------------------------------------

\* The L16 sender (main.go).
sampleRateL16 == 48000
channelsL16 == 2
bitDepthL16 == 16
payloadTypeL16 == 96
rtpClockRateL16 == 48000
mtuL16 == 1500

\* The mu-law sender.
sampleRatePCMU == 44100
channelsPCMU == 2
bitDepthPCMU == 16
payloadTypePCMU == 0
rtpClockRatePCMU == 8000
mtuPCMU == 1500

Variants == {"L16", "PCMU"}

sampleRate(v) == IF v = "L16" THEN sampleRateL16 ELSE sampleRatePCMU
channels(v) == IF v = "L16" THEN channelsL16 ELSE channelsPCMU
bitDepth(v) == IF v = "L16" THEN bitDepthL16 ELSE bitDepthPCMU
payloadType(v) == IF v = "L16" THEN payloadTypeL16 ELSE payloadTypePCMU
rtpClockRate(v) == IF v = "L16" THEN rtpClockRateL16 ELSE rtpClockRatePCMU
mtu(v) == IF v = "L16" THEN mtuL16 ELSE mtuPCMU

\* ------------------------------------------------------------------------
\* linearToMuLaw and the two payloaders
\* ------------------------------------------------------------------------

bias == 132
quantMask == 15

\* The value the exponent search is given when its loop condition can never
\* become false (i has been shifted down to 0): the Go loop then never ends.
Diverges == 0 - 1

RECURSIVE ExponentLoop(_, _, _)
\* for i := int16(0x4000); (sample & i) == 0; i >>= 1 { exponent-- }
\* i is 0x4000 shifted right: one set bit, or 0 once that bit is shifted out.
ExponentLoop(sample, i, exponent) ==
    IF i # 0 /\ (U16(sample) \div i) % 2 = 1 THEN exponent
    ELSE IF i = 0 THEN Diverges
    ELSE ExponentLoop(sample, Shr16(i, 1), exponent - 1)

\* An encoder that leaves the bias out before the exponent search.
linearToMuLaw_noBias(sample0) ==
    LET sign == BitAnd(U16(Shr16(sample0, 15)), 128)
        s1 == IF sign # 0 THEN ToInt16(-sample0) ELSE sample0
        sample == IF s1 > 32635 THEN 32635 ELSE s1
        exponent == ExponentLoop(sample, 16384, 7)
    IN  IF exponent = Diverges THEN Diverges
        ELSE LET position == BitAnd(U16(Shr16(sample, exponent + 3)), quantMask)
                 segment == (exponent * 16) % 256
             IN  255 - BitOr(BitOr(sign % 256, segment), position % 256)

linearToMuLaw(sample0) ==
    LET sign == BitAnd(U16(Shr16(sample0, 15)), 128)
        s1 == IF sign # 0 THEN ToInt16(-sample0) ELSE sample0
        s2 == IF s1 > 32635 THEN 32635 ELSE s1
        sample == ToInt16(s2 + bias)
        exponent == ExponentLoop(sample, 16384, 7)
    IN  IF exponent = Diverges THEN Diverges
        ELSE LET position == BitAnd(U16(Shr16(sample, exponent + 3)), quantMask)
                 segment == (exponent * 16) % 256
             IN  255 - BitOr(BitOr(sign % 256, segment), position % 256)

\* The value of sample that linearToMuLaw's exponent search is run on: the
\* int16 after the negation, the clamp and the bias.
Biased(sample0) ==
    LET s1 == IF sample0 < 0 THEN ToInt16(-sample0) ELSE sample0
        s2 == IF s1 > 32635 THEN 32635 ELSE s1
    IN  ToInt16(s2 + bias)

\* A chunking that keeps the full chunks only.
pcmPayloader_Payload_fullOnly(m, payload) ==
    [ i \in 1..(Len(payload) \div m) |-> SubSeq(payload, (i - 1) * m + 1, i * m) ]

RECURSIVE pcmPayloader_Payload(_, _)
\* pcmPayloader.Payload: the chunks, in order.  m is at least 1 here: with
\* m = 0 and a non-empty payload the Go loop appends empty chunks forever.
pcmPayloader_Payload(m, payload) ==
    IF Len(payload) = 0 THEN << >>
    ELSE LET chunkSize == IF Len(payload) > m THEN m ELSE Len(payload)
         IN  << SubSeq(payload, 1, chunkSize) >>
               \o pcmPayloader_Payload(m, SubSeq(payload, chunkSize + 1, Len(payload)))

\* step := (sampleRate / rtpClockRate) * channels, in Go's integer division.
muLawStep == (sampleRatePCMU \div rtpClockRatePCMU) * channelsPCMU

\* The offsets i the first loop of pcmToMuLawPayloader.Payload visits
\* (for i := 0; i+1 < len(payload); i += 2*step), 0-based, in order: the
\* k-th is (k-1)*2*step, for as long as it leaves a second byte to read.
MuLawOffsets(n) ==
    LET count == IF n < 2 THEN 0 ELSE (n - 2) \div (2 * muLawStep) + 1
    IN  [ k \in 1..count |-> (k - 1) * 2 * muLawStep ]

\* sample := int16(payload[i]) | int16(payload[i+1])<<8, for the 0-based i.
LittleEndianSample(payload, i) ==
    ToInt16(BitOr(payload[i + 1], (payload[i + 2] * 256) % Pow16))

\* The first loop of pcmToMuLawPayloader.Payload: one little-endian 16-bit
\* sample every 2*step bytes, mu-law encoded.
MuLawEncode(payload) ==
    LET offs == MuLawOffsets(Len(payload))
    IN  [ k \in 1..Len(offs) |-> linearToMuLaw(LittleEndianSample(payload, offs[k])) ]

RECURSIVE MuLawChunks(_, _)
\* The second loop of pcmToMuLawPayloader.Payload: MTU-sized chunks.
MuLawChunks(m, muLawPayload) ==
    IF Len(muLawPayload) = 0 THEN << >>
    ELSE LET chunkSize == IF Len(muLawPayload) > m THEN m ELSE Len(muLawPayload)
         IN  << SubSeq(muLawPayload, 1, chunkSize) >>
               \o MuLawChunks(m, SubSeq(muLawPayload, chunkSize + 1, Len(muLawPayload)))

pcmToMuLawPayloader_Payload(m, payload) == MuLawChunks(m, MuLawEncode(payload))

\* The payloader each sender hands to rtp.NewPacketizer.
Payloader(v, m, payload) ==
    IF v = "L16" THEN pcmPayloader_Payload(m, payload)
    ELSE pcmToMuLawPayloader_Payload(m, payload)

RECURSIVE Flatten(_)
\* The concatenation of a sequence of chunks.
Flatten(chunks) ==
    IF Len(chunks) = 0 THEN << >> ELSE Head(chunks) \o Flatten(Tail(chunks))

RECURSIVE SumLen(_)
\* The total number of bytes in a sequence of chunks.
SumLen(chunks) ==
    IF Len(chunks) = 0 THEN 0 ELSE Len(Head(chunks)) + SumLen(Tail(chunks))

\* ------------------------------------------------------------------------
\* State
\* ------------------------------------------------------------------------

VARIABLES
    fnKind,     \* SpecPayload: which payloader is applied ("L16" or "PCMU")
    fnMtu,      \* SpecPayload: the mtu argument
    fnPayload,  \* SpecPayload: the payload argument
    fnOut,      \* SpecPayload: the returned chunks
    fnPc,       \* SpecPayload: "call" before the call, "ret" after it
    \* --- the sender process
    variant,    \* which sender runs: "L16" (main.go) or "PCMU" (the mu-law sender)
    seqNo,      \* the sequencer's last sequence number (uint16)
    timestamp,  \* the packetizer's Timestamp (uint32)
    ssrc,       \* the packetizer's SSRC (uint32)
    sPc,        \* the streaming task: "read", "send", "ended" (end of stream,
                \* returned), "failed" (read fault, returned)
    packets,    \* the packets of the current frame the range loop has yet to visit
    firstError, \* main.go's firstError (the mu-law sender has none)
    connOpen,   \* whether the UDP socket conn is open
    parec,      \* the capture process: "running", "killed", "ended"
    pipeFrames, \* full frames left in parec's pipe once parec has stopped
    pipeTail,   \* whether parec left a partial frame after them
    wire,       \* history: every conn.Write so far, in order, with its outcome
    frames,     \* history: every frame handed to Packetize so far
    net,        \* datagrams on their way to a linked receiver
    linked,     \* whether a receiver of the model is at the destination
    capture,    \* what the capture delivers in this run: at most capture.max
                \* frames, with contents among capture.pats
    mPc,        \* the sender's main task: "wait", "killFirefox", "killParec",
                \* "unload", "exit", "exited"
    \* --- the receiver process
    rxKind,     \* which receiver runs: "wav" (the WAV writer) or "print"
                \* (server/main.go)
    listener,   \* the listening socket: "open" or "closed"
    rPc,        \* the receive task: "read", "insert" (print only), "parse",
                \* "lock", "lookup", "unlock", "write", "done"
    dgram,      \* the datagram the receive task is handling: [from, bytes]
    packet,     \* the Payload of the packet it unmarshalled
    client,     \* its local variable client: the name of the client's file
    clientsMutex, \* "free", or the task holding it: "rx", "main"
    clients,    \* the map clients: addr.String() -> the client's file name
                \* (print: -> the address)
    files,      \* the WAV files created: name -> [writes, finalized, closed, errors]
    now,        \* the clock, in seconds
    rmPc,       \* the receiver's main task: "wait", "closeListener", "lock",
                \* "range", "encClose", "fileClose", "deferUnlock",
                \* "deferClose", "exit", "exited"
    todo,       \* the keys the cleanup's range loop has yet to visit
    cur,        \* the key it is visiting
    faults,     \* how many I/O faults the environment has injected
    rxLog       \* history: what became of each datagram read, in order

fnVars == << fnKind, fnMtu, fnPayload, fnOut, fnPc >>

\* The sender's variables but net, which a linked receiver reads.
sndOwn == << variant, seqNo, timestamp, ssrc, sPc, packets, firstError, connOpen,
             parec, pipeFrames, pipeTail, wire, frames, linked, capture, mPc >>

sndVars == << sndOwn, net >>

rcvVars == << rxKind, listener, rPc, dgram, packet, client, clientsMutex, clients,
              files, now, rmPc, todo, cur, faults, rxLog >>

vars == << fnVars, sndVars, rcvVars >>

\* The variables of a part that a specification leaves out stay at these.
FnIdle ==
    /\ fnKind = "none"
    /\ fnMtu = 0
    /\ fnPayload = << >>
    /\ fnOut = << >>
    /\ fnPc = "idle"

\* ------------------------------------------------------------------------
\* The sender: startStreaming's streaming task and main's shutdown
\* ------------------------------------------------------------------------

MaxFrames == 2
E2EFrames == 50
MaxWriteFail == 1
MaxPipe == 1
NetCap == 1

\* A frame of one channel only.
bufferSize_mono(v) == (sampleRate(v) \div 50) * (bitDepth(v) \div 8)

\* bufferSize := (sampleRate / 50) * channels * (bitDepth / 8)
bufferSize(v) == (sampleRate(v) \div 50) * channels(v) * (bitDepth(v) \div 8)

\* A sample count taken from the capture rate.
samples_rawRate(v) == sampleRate(v) \div 50

\* samples := uint32(rtpClockRate / 50)
samples(v) == rtpClockRate(v) \div 50

\* The contents a captured frame is drawn from: silence, and a ramp.
FramePatterns == {"silence", "ramp"}

FrameBytes(v, pat) ==
    [ j \in 1..bufferSize(v) |-> IF pat = "silence" THEN 0 ELSE (37 * j) % 256 ]

\* (sequence number, timestamp, SSRC) the packetizer may start from:
\* NewRandomSequencer and rand.Uint32 draw them at random.  The values that
\* make the 16-bit and 32-bit counters wrap within MaxFrames frames are among
\* them.
Starts ==
    { [seq |-> 0,     ts |-> U32(0, 0),         ssrc |-> U32(0, 7)],
      [seq |-> 65533, ts |-> U32(65535, 65400), ssrc |-> U32(43981, 4660)],
      [seq |-> 65532, ts |-> U32(1, 65535),     ssrc |-> U32(65535, 65535)] }

\* What each payloader returns for the frames the capture can deliver,
\* computed once.
FrameChunks ==
    [ v \in Variants |->
        [ pat \in FramePatterns |-> Payloader(v, mtu(v) - 12, FrameBytes(v, pat)) ] ]

\* p.Payloader.Payload(m, payload): Payloader(v, m, payload), looked up in
\* FrameChunks when the arguments are those of an entry.
PayloaderCall(v, m, payload) ==
    IF m = mtu(v) - 12 /\ \E pat \in FramePatterns : FrameBytes(v, pat) = payload
    THEN FrameChunks[v][CHOOSE pat \in FramePatterns : FrameBytes(v, pat) = payload]
    ELSE Payloader(v, m, payload)

\* A packetizer whose sequencer starts over with each frame.
ThePacketizer_perFrame ==
    [seq |-> 0, ts |-> timestamp, ssrc |-> ssrc, pt |-> payloadType(variant),
     mtu |-> mtu(variant)]

\* A packetizer that draws its SSRC anew for every frame.
ThePacketizer_freshSsrc ==
    [seq |-> seqNo, ts |-> timestamp, ssrc |-> U32(ssrc.hi, seqNo),
     pt |-> payloadType(variant), mtu |-> mtu(variant)]

\* The packetizer the streaming loop uses: the one rtp.NewPacketizer built
\* before the loop, whose sequencer, timestamp and SSRC live on across frames.
ThePacketizer ==
    [seq |-> seqNo, ts |-> timestamp, ssrc |-> ssrc, pt |-> payloadType(variant),
     mtu |-> mtu(variant)]

\* pion/rtp's Packetizer.Packetize: nothing for an empty payload; otherwise
\* one packet per chunk the payloader returns for MTU-12, each with the next
\* sequence number and all with the packetizer's current timestamp, which
\* then advances by sampleCount.  Returns the packets and the new state.
Packetize(pz, v, payload, sampleCount, frame) ==
    IF Len(payload) = 0 THEN [packets |-> << >>, seq |-> pz.seq, ts |-> pz.ts]
    ELSE LET payloads == PayloaderCall(v, pz.mtu - 12, payload)
         IN  [packets |->
                [ i \in 1..Len(payloads) |->
                    [pt |-> pz.pt,
                     seq |-> (pz.seq + i) % Pow16,
                     ts |-> pz.ts,
                     ssrc |-> pz.ssrc,
                     marker |-> (i = Len(payloads)),
                     frame |-> frame,
                     payload |-> payloads[i]] ],
              seq |-> (pz.seq + Len(payloads)) % Pow16,
              ts |-> Add32(pz.ts, sampleCount)]

\* pion/rtp's Packet.Marshal for a packet Packetize built (version 2, no
\* padding, no extension, no CSRC): the 12 header bytes, then the payload.
Marshal(p) ==
    << 128,
       (IF p.marker THEN 128 ELSE 0) + p.pt,
       p.seq \div 256, p.seq % 256,
       p.ts.hi \div 256, p.ts.hi % 256, p.ts.lo \div 256, p.ts.lo % 256,
       p.ssrc.hi \div 256, p.ssrc.hi % 256, p.ssrc.lo \div 256, p.ssrc.lo % 256 >>
      \o p.payload

\* The address the sender's datagrams come from, as addr.String() prints it.
SenderAddr == << "10.0.0.9", ":", "40000" >>

\* What the history keeps of a written packet.
WireEntry(p, ok) ==
    [seq |-> p.seq, ts |-> p.ts, ssrc |-> p.ssrc, pt |-> p.pt, marker |-> p.marker,
     frame |-> p.frame, len |-> Len(p.payload), ok |-> ok]

Running == mPc # "exited"

SndIdle ==
    /\ variant = "none"
    /\ seqNo = 0
    /\ timestamp = U32(0, 0)
    /\ ssrc = U32(0, 0)
    /\ sPc = "off"
    /\ packets = << >>
    /\ firstError = TRUE
    /\ connOpen = FALSE
    /\ parec = "none"
    /\ pipeFrames = 0
    /\ pipeTail = FALSE
    /\ wire = << >>
    /\ frames = << >>
    /\ net = << >>
    /\ linked = FALSE
    /\ capture = [max |-> 0, pats |-> {}]
    /\ mPc = "off"

\* The sender once startStreaming has returned: socket dialled, packetizer
\* built, parec started, the streaming task at its first read, main waiting
\* for a signal.
InitSender(vs, starts, isLinked, cap, pats) ==
    /\ variant \in vs
    /\ \E st \in starts :
         /\ seqNo = st.seq
         /\ timestamp = st.ts
         /\ ssrc = st.ssrc
    /\ sPc = "read"
    /\ packets = << >>
    /\ firstError = TRUE
    /\ connOpen = TRUE
    /\ parec = "running"
    /\ pipeFrames = 0
    /\ pipeTail = FALSE
    /\ wire = << >>
    /\ frames = << >>
    /\ net = << >>
    /\ linked = isLinked
    /\ capture = [max |-> cap, pats |-> pats]
    /\ mPc = "wait"

\* io.ReadFull returns a full frame (it blocks until parec has written one,
\* or takes one that is left in the pipe); the frame is packetized.
StreamReadFrame ==
    /\ Running
    /\ sPc = "read"
    /\ parec = "running" \/ pipeFrames > 0
    /\ Len(frames) < capture.max
    /\ \E pat \in capture.pats :
         \E r \in { Packetize(ThePacketizer, variant, FrameBytes(variant, pat),
                               samples(variant), Len(frames) + 1) } :
           IF bufferSize(variant) = 0
           THEN UNCHANGED << seqNo, timestamp, sPc, packets, firstError, frames >>
           ELSE /\ seqNo' = r.seq
                /\ timestamp' = r.ts
                /\ packets' = r.packets
                /\ firstError' = TRUE
                /\ sPc' = IF Len(r.packets) = 0 THEN "read" ELSE "send"
                /\ frames' = Append(frames,
                                    [ts |-> timestamp, samples |-> samples(variant),
                                     bytes |-> SumLen([ i \in 1..Len(r.packets) |->
                                                          r.packets[i].payload ]),
                                     npkts |-> Len(r.packets)])
    /\ pipeFrames' = IF parec = "running" THEN pipeFrames ELSE pipeFrames - 1
    /\ UNCHANGED << variant, ssrc, connOpen, parec, pipeTail, wire, net, linked, capture, mPc >>
    /\ UNCHANGED << fnVars, rcvVars >>

\* A streaming task that sends what is left of the last frame.
StreamEnd_flushPartial ==
    /\ Running
    /\ sPc = "read"
    /\ parec # "running"
    /\ pipeFrames = 0
    /\ sPc' = "ended"
    /\ connOpen' = FALSE
    /\ IF pipeTail
       THEN /\ seqNo' = (seqNo + 1) % Pow16
            /\ timestamp' = Add32(timestamp, samples(variant))
            /\ wire' = Append(wire, [seq |-> (seqNo + 1) % Pow16, ts |-> timestamp,
                                      ssrc |-> ssrc, pt |-> payloadType(variant),
                                      marker |-> TRUE, frame |-> Len(frames) + 1,
                                      len |-> 2, ok |-> TRUE])
       ELSE UNCHANGED << seqNo, timestamp, wire >>
    /\ UNCHANGED << variant, ssrc, packets, firstError, parec, pipeFrames, pipeTail,
                    frames, net, linked, capture, mPc >>
    /\ UNCHANGED << fnVars, rcvVars >>

\* io.ReadFull returns io.EOF (nothing left) or io.ErrUnexpectedEOF (a
\* partial frame left): the task logs, returns, and its deferred conn.Close
\* runs.
StreamEnd ==
    /\ Running
    /\ sPc = "read"
    /\ parec # "running"
    /\ pipeFrames = 0
    /\ sPc' = "ended"
    /\ connOpen' = FALSE
    /\ UNCHANGED << variant, seqNo, timestamp, ssrc, packets, firstError, parec,
                    pipeFrames, pipeTail, wire, frames, net, linked, capture, mPc >>
    /\ UNCHANGED << fnVars, rcvVars >>

\* io.ReadFull returns another error: the task logs, returns, and its
\* deferred conn.Close runs.
StreamReadError ==
    /\ Running
    /\ sPc = "read"
    /\ sPc' = "failed"
    /\ connOpen' = FALSE
    /\ UNCHANGED << variant, seqNo, timestamp, ssrc, packets, firstError, parec,
                    pipeFrames, pipeTail, wire, frames, net, linked, capture, mPc >>
    /\ UNCHANGED << fnVars, rcvVars >>

\* One iteration of the range loop over the frame's packets, with the
\* outcome ok of conn.Write.
WritePacket(ok) ==
    /\ Running
    /\ sPc = "send"
    /\ Len(packets) > 0
    /\ LET p == Head(packets)
           data == Marshal(p)
       IN  /\ wire' = Append(wire, WireEntry(p, ok))
           /\ net' = IF ok /\ linked
                     THEN Append(net, [from |-> SenderAddr, bytes |-> data])
                     ELSE net
    /\ firstError' = IF variant = "L16" THEN ok ELSE firstError
    /\ packets' = Tail(packets)
    /\ sPc' = IF Len(packets) = 1 THEN "read" ELSE "send"
    /\ UNCHANGED << variant, seqNo, timestamp, ssrc, connOpen, parec, pipeFrames,
                    pipeTail, frames, linked, capture, mPc >>
    /\ UNCHANGED << fnVars, rcvVars >>

\* conn.Write succeeds.  Towards a linked receiver the datagram is delivered:
\* the receiver's socket buffer has room for it.
WritePacketOk ==
    /\ linked => Len(net) < NetCap
    /\ WritePacket(TRUE)

\* A streaming task that gives up at the first write that fails.
WritePacketFail_abort ==
    /\ Cardinality({ i \in 1..Len(wire) : ~wire[i].ok }) < MaxWriteFail
    /\ Running
    /\ sPc = "send"
    /\ Len(packets) > 0
    /\ wire' = Append(wire, WireEntry(Head(packets), FALSE))
    /\ sPc' = "failed"
    /\ connOpen' = FALSE
    /\ UNCHANGED << variant, seqNo, timestamp, ssrc, packets, firstError, parec,
                    pipeFrames, pipeTail, frames, net, linked, capture, mPc >>
    /\ UNCHANGED << fnVars, rcvVars >>

\* A streaming task that tries a packet again when its write has failed.
WritePacketFail_retry ==
    /\ Cardinality({ i \in 1..Len(wire) : ~wire[i].ok }) < MaxWriteFail
    /\ Running
    /\ sPc = "send"
    /\ Len(packets) > 0
    /\ wire' = Append(wire, WireEntry(Head(packets), FALSE))
    /\ firstError' = IF variant = "L16" THEN FALSE ELSE firstError
    /\ UNCHANGED << variant, seqNo, timestamp, ssrc, sPc, packets, connOpen, parec,
                    pipeFrames, pipeTail, frames, net, linked, capture, mPc >>
    /\ UNCHANGED << fnVars, rcvVars >>

\* conn.Write fails: the failure is logged and the loop goes on.
WritePacketFail ==
    /\ Cardinality({ i \in 1..Len(wire) : ~wire[i].ok }) < MaxWriteFail
    /\ WritePacket(FALSE)

\* parec ends by itself; what it had written stays readable.
ParecExit ==
    /\ Running
    /\ parec = "running"
    /\ parec' = "ended"
    /\ pipeFrames' \in 0..MaxPipe
    /\ pipeTail' \in BOOLEAN
    /\ UNCHANGED << variant, seqNo, timestamp, ssrc, sPc, packets, firstError,
                    connOpen, wire, frames, net, linked, capture, mPc >>
    /\ UNCHANGED << fnVars, rcvVars >>

\* <-sigs returns.
MainSignal ==
    /\ mPc = "wait"
    /\ mPc' = "killFirefox"
    /\ UNCHANGED << variant, seqNo, timestamp, ssrc, sPc, packets, firstError,
                    connOpen, parec, pipeFrames, pipeTail, wire, frames, net, linked, capture >>
    /\ UNCHANGED << fnVars, rcvVars >>

\* firefoxCmd.Process.Kill()
MainKillFirefox ==
    /\ mPc = "killFirefox"
    /\ mPc' = "killParec"
    /\ UNCHANGED << variant, seqNo, timestamp, ssrc, sPc, packets, firstError,
                    connOpen, parec, pipeFrames, pipeTail, wire, frames, net, linked, capture >>
    /\ UNCHANGED << fnVars, rcvVars >>

\* parecCmd.Process.Kill(): a running parec dies, and what it had written
\* stays readable; on a parec that has ended Kill only returns an error.
MainKillParec ==
    /\ mPc = "killParec"
    /\ IF parec = "running"
       THEN /\ parec' = "killed"
            /\ pipeFrames' \in 0..MaxPipe
            /\ pipeTail' \in BOOLEAN
       ELSE UNCHANGED << parec, pipeFrames, pipeTail >>
    /\ mPc' = IF variant = "L16" THEN "unload" ELSE "exit"
    /\ UNCHANGED << variant, seqNo, timestamp, ssrc, sPc, packets, firstError,
                    connOpen, wire, frames, net, linked, capture >>
    /\ UNCHANGED << fnVars, rcvVars >>

\* main.go only: pactl unload-module.
MainUnload ==
    /\ mPc = "unload"
    /\ mPc' = "exit"
    /\ UNCHANGED << variant, seqNo, timestamp, ssrc, sPc, packets, firstError,
                    connOpen, parec, pipeFrames, pipeTail, wire, frames, net, linked, capture >>
    /\ UNCHANGED << fnVars, rcvVars >>

\* main logs "Cleanup complete" and returns: the process exits, and with it
\* the streaming task, wherever it is.
MainExit ==
    /\ mPc = "exit"
    /\ mPc' = "exited"
    /\ UNCHANGED << variant, seqNo, timestamp, ssrc, sPc, packets, firstError,
                    connOpen, parec, pipeFrames, pipeTail, wire, frames, net, linked, capture >>
    /\ UNCHANGED << fnVars, rcvVars >>

\* ------------------------------------------------------------------------
\* The receivers: the receive task and main's shutdown
\* ------------------------------------------------------------------------

MaxDatagrams == 3
MaxFaults == 1
MaxClosedReads == 2

\* The seconds time.Now().Unix() may read while the receiver runs: the runs
\* of the model are over within a second.
Times == {0}

\* pion/rtp's Packet.Unmarshal on the n bytes read: an error when the bytes
\* are fewer than the 12-byte header plus its CSRC list, or when the padding
\* the P bit announces does not fit; otherwise the payload is what follows
\* the header, less the padding.  (No datagram of the model sets the X bit.)
Unmarshal(bytes) ==
    LET n == Len(bytes)
        bad == [ok |-> FALSE, payload |-> << >>]
    IN  IF n < 4 THEN bad
        ELSE LET cc == bytes[1] % 16
                 padding == (bytes[1] \div 32) % 2 = 1
                 hdr == 12 + 4 * cc
             IN  IF n < hdr THEN bad
                 ELSE IF padding /\ n <= hdr THEN bad
                 ELSE LET end == IF padding THEN n - bytes[n] ELSE n
                      IN  IF end < hdr THEN bad
                          ELSE [ok |-> TRUE, payload |-> SubSeq(bytes, hdr + 1, end)]

\* addr.String(): the address as text, here a sequence of tokens; the ":"
\* tokens are the colons of the text.
AddrString(addr) == addr

\* A key that leaves the port out.
ClientKey_ipOnly(addr) == << addr[1] >>

\* The key the clients map is read and written under: addr.String().
ClientKey(addr) == AddrString(addr)

\* strings.ReplaceAll(s, old, new)
ReplaceAll(str, old, new) ==
    [ i \in 1..Len(str) |-> IF str[i] = old THEN new ELSE str[i] ]

\* fmt.Sprintf("%s_%d.wav", strings.ReplaceAll(addr.String(), ":", "_"), t)
FileName(addr, t) ==
    ReplaceAll(AddrString(addr), ":", "_") \o << "_", ToString(t), ".wav" >>

\* The loop over the payload: numSamples = len/2 big-endian signed 16-bit
\* samples; a trailing odd byte is left out.
DecodeSamples(payload) ==
    [ i \in 1..(Len(payload) \div 2) |->
        ToInt16(payload[2 * i - 1] * 256 + payload[2 * i]) ]

\* A buffer of samples as a file records it: its runs of equal samples, in
\* order, each with its value and the index of its last sample.
Runs(smp) ==
    LET n == Len(smp)
        first == { i \in 1..n : i = 1 \/ smp[i] # smp[i - 1] }
        start(k) == CHOOSE i \in first : Cardinality({ j \in first : j < i }) = k - 1
    IN  [ k \in 1..Cardinality(first) |->
            [value |-> smp[start(k)],
             upto |-> IF k = Cardinality(first) THEN n ELSE start(k + 1) - 1] ]

\* The number of samples in a recorded buffer.
RunsLen(runs) == IF Len(runs) = 0 THEN 0 ELSE runs[Len(runs)].upto

\* A WAV file just created: the buffers encoder.Write appended (each with
\* the address its packet came from), how often encoder.Close and
\* file.Close were called on it, and how many of these calls returned an
\* error.
NewFile == [writes |-> << >>, finalized |-> 0, closed |-> 0, errors |-> 0]

RECURSIVE SampleCountFrom(_, _)
\* The number of samples in the buffers i.. of a file.
SampleCountFrom(f, i) ==
    IF i > Len(f.writes) THEN 0
    ELSE RunsLen(f.writes[i].samples) + SampleCountFrom(f, i + 1)

\* The number of samples in a file.
SampleCount(f) == SampleCountFrom(f, 1)

\* m with key k set to v.
MapPut(m, k, v) == [ x \in DOMAIN m \cup {k} |-> IF x = k THEN v ELSE m[x] ]

EmptyMap == [ x \in {} |-> 0 ]

\* The source addresses of the model: two ports of one host, and another host.
A1 == << "10.0.0.1", ":", "5004" >>
A2 == << "10.0.0.1", ":", "5005" >>
A3 == << "10.0.0.2", ":", "5004" >>

\* A well-formed RTP datagram with the given sequence number and payload.
ValidBytes(seq, payload) ==
    Marshal([pt |-> payloadTypeL16, seq |-> seq, ts |-> U32(0, 960 * seq),
             ssrc |-> U32(0, 7), marker |-> TRUE, payload |-> payload])

\* The datagrams the network may deliver to the receiver: well-formed ones
\* with two samples, with one sample and an earlier sequence number and
\* timestamp from the same address, with one sample and an odd byte, and
\* with no payload, and a malformed one (a header cut short at 11 bytes).
\* Any of them may arrive again.
Datagrams ==
    { [from |-> A1, bytes |-> ValidBytes(1, << 0, 1, 255, 254 >>)],
      [from |-> A1, bytes |-> ValidBytes(0, << 128, 0 >>)],
      [from |-> A2, bytes |-> ValidBytes(2, << 127, 255, 128 >>)],
      [from |-> A3, bytes |-> ValidBytes(3, << >>)],
      [from |-> A3, bytes |-> SubSeq(ValidBytes(2, << 1, 2 >>), 1, 11)] }

NoDgram == [from |-> << >>, bytes |-> << >>]

RcvIdle ==
    /\ rxKind = "none"
    /\ listener = "closed"
    /\ rPc = "off"
    /\ dgram = NoDgram
    /\ packet = << >>
    /\ client = << >>
    /\ clientsMutex = "free"
    /\ clients = EmptyMap
    /\ files = EmptyMap
    /\ now = 0
    /\ rmPc = "off"
    /\ todo = {}
    /\ cur = << >>
    /\ faults = 0
    /\ rxLog = << >>

\* The receiver once main has started the receive task: the socket
\* listening, the map empty, main waiting for a signal.
InitReceiver(kinds) ==
    /\ rxKind \in kinds
    /\ listener = "open"
    /\ rPc = "read"
    /\ dgram = NoDgram
    /\ packet = << >>
    /\ client = << >>
    /\ clientsMutex = "free"
    /\ clients = EmptyMap
    /\ files = EmptyMap
    /\ now = 0
    /\ rmPc = "wait"
    /\ todo = {}
    /\ cur = << >>
    /\ faults = 0
    /\ rxLog = << >>

RxRunning == rmPc # "exited"

\* What the history keeps of a datagram: its source, what became of it, and
\* how many samples it added to a file.
Logged(what, count) == Append(rxLog, [from |-> dgram.from, what |-> what, n |-> count])

\* The receive task's step to the datagram d just read.
RxTake(d) ==
    /\ dgram' = d
    /\ rPc' = IF rxKind = "wav" THEN "parse" ELSE "insert"
    /\ UNCHANGED << rxKind, listener, packet, client, clientsMutex, clients, files,
                    now, rmPc, todo, cur, faults, rxLog >>

\* listener.ReadFromUDP returns a datagram the network delivers.
RxRead ==
    /\ RxRunning
    /\ rPc = "read"
    /\ listener = "open"
    /\ ~linked
    /\ Len(rxLog) < MaxDatagrams
    /\ \E d \in Datagrams : RxTake(d)
    /\ UNCHANGED << fnVars, sndVars >>

\* listener.ReadFromUDP returns the next datagram the linked sender wrote.
RxReadNet ==
    /\ RxRunning
    /\ rPc = "read"
    /\ listener = "open"
    /\ linked
    /\ Len(net) > 0
    /\ RxTake(Head(net))
    /\ net' = Tail(net)
    /\ UNCHANGED << fnVars, sndOwn >>

\* listener.ReadFromUDP fails on the closed socket.  The WAV receiver
\* recognises "use of closed network connection" and returns; the printing
\* receiver prints the error and reads again.
RxReadClosed ==
    /\ RxRunning
    /\ rPc = "read"
    /\ listener = "closed"
    /\ Cardinality({ i \in 1..Len(rxLog) : rxLog[i].what = "readClosed" }) < MaxClosedReads
    /\ rPc' = IF rxKind = "wav" THEN "done" ELSE "read"
    /\ rxLog' = Append(rxLog, [from |-> << >>, what |-> "readClosed", n |-> 0])
    /\ UNCHANGED << rxKind, listener, dgram, packet, client, clientsMutex, clients,
                    files, now, rmPc, todo, cur, faults >>
    /\ UNCHANGED << fnVars, sndVars >>

\* listener.ReadFromUDP fails on the open socket: printed, and read again.
RxReadError ==
    /\ RxRunning
    /\ rPc = "read"
    /\ listener = "open"
    /\ faults < MaxFaults
    /\ faults' = faults + 1
    /\ UNCHANGED << rxKind, listener, rPc, dgram, packet, client, clientsMutex,
                    clients, files, now, rmPc, todo, cur, rxLog >>
    /\ UNCHANGED << fnVars, sndVars >>

\* server/main.go only: the address is recorded, if new, before the
\* datagram is parsed.
RxInsert ==
    /\ RxRunning
    /\ rPc = "insert"
    /\ clients' = IF ClientKey(dgram.from) \in DOMAIN clients THEN clients
                  ELSE MapPut(clients, ClientKey(dgram.from), dgram.from)
    /\ rPc' = "parse"
    /\ UNCHANGED << rxKind, listener, dgram, packet, client, clientsMutex, files,
                    now, rmPc, todo, cur, faults, rxLog >>
    /\ UNCHANGED << fnVars, sndVars >>

\* A receive task that gives up at the first datagram it cannot parse.
RxParseFail_stop ==
    /\ RxRunning
    /\ rPc = "parse"
    /\ ~Unmarshal(dgram.bytes).ok
    /\ rPc' = "done"
    /\ UNCHANGED << rxKind, listener, dgram, packet, client, clientsMutex, clients,
                    files, now, rmPc, todo, cur, faults, rxLog >>
    /\ UNCHANGED << fnVars, sndVars >>

\* packet.Unmarshal fails: the error is printed and the loop continues.
RxParseFail ==
    /\ RxRunning
    /\ rPc = "parse"
    /\ ~Unmarshal(dgram.bytes).ok
    /\ rPc' = "read"
    /\ rxLog' = Logged("dropped", 0)
    /\ UNCHANGED << rxKind, listener, dgram, packet, client, clientsMutex, clients,
                    files, now, rmPc, todo, cur, faults >>
    /\ UNCHANGED << fnVars, sndVars >>

\* packet.Unmarshal succeeds.  The WAV receiver goes on to the map; the
\* printing receiver prints the packet's header fields and reads again.
RxParseOk ==
    /\ RxRunning
    /\ rPc = "parse"
    /\ Unmarshal(dgram.bytes).ok
    /\ packet' = Unmarshal(dgram.bytes).payload
    /\ IF rxKind = "wav"
       THEN /\ rPc' = "lock"
            /\ UNCHANGED rxLog
       ELSE /\ rPc' = "read"
            /\ rxLog' = Logged("printed", 0)
    /\ UNCHANGED << rxKind, listener, dgram, client, clientsMutex, clients, files,
                    now, rmPc, todo, cur, faults >>
    /\ UNCHANGED << fnVars, sndVars >>

\* clientsMutex.Lock() in the receive task.
RxLock ==
    /\ RxRunning
    /\ rPc = "lock"
    /\ clientsMutex = "free"
    /\ clientsMutex' = "rx"
    /\ rPc' = "lookup"
    /\ UNCHANGED << rxKind, listener, dgram, packet, client, clients, files, now,
                    rmPc, todo, cur, faults, rxLog >>
    /\ UNCHANGED << fnVars, sndVars >>

\* client, ok := clients[addr.String()] finds the client.
RxLookupHit ==
    /\ RxRunning
    /\ rPc = "lookup"
    /\ ClientKey(dgram.from) \in DOMAIN clients
    /\ client' = clients[ClientKey(dgram.from)]
    /\ rPc' = "unlock"
    /\ UNCHANGED << rxKind, listener, dgram, packet, clientsMutex, clients, files,
                    now, rmPc, todo, cur, faults, rxLog >>
    /\ UNCHANGED << fnVars, sndVars >>

\* A receive task that makes a new file and record for every packet.
RxCreate_everyPacket ==
    /\ RxRunning
    /\ rPc = "lookup"
    /\ \E t \in { u \in Times : u >= now } :
         /\ now' = t
         /\ files' = MapPut(files, FileName(dgram.from, t), NewFile)
         /\ client' = FileName(dgram.from, t)
         /\ clients' = MapPut(clients, ClientKey(dgram.from), FileName(dgram.from, t))
    /\ rPc' = "unlock"
    /\ UNCHANGED << rxKind, listener, dgram, packet, clientsMutex, rmPc, todo, cur,
                    faults, rxLog >>
    /\ UNCHANGED << fnVars, sndVars >>

\* The client is new and os.Create succeeds (truncating a file of that name,
\* if there is one): the encoder and the client record are made and the
\* record is put in the map.  The clock reads t.
RxCreate ==
    /\ RxRunning
    /\ rPc = "lookup"
    /\ ClientKey(dgram.from) \notin DOMAIN clients
    /\ \E t \in { u \in Times : u >= now } :
         /\ now' = t
         /\ files' = MapPut(files, FileName(dgram.from, t), NewFile)
         /\ client' = FileName(dgram.from, t)
         /\ clients' = MapPut(clients, ClientKey(dgram.from), FileName(dgram.from, t))
    /\ rPc' = "unlock"
    /\ UNCHANGED << rxKind, listener, dgram, packet, clientsMutex, rmPc, todo, cur,
                    faults, rxLog >>
    /\ UNCHANGED << fnVars, sndVars >>

\* A receive task that continues after a failed os.Create without unlocking.
RxCreateFail_keepLock ==
    /\ RxRunning
    /\ rPc = "lookup"
    /\ ClientKey(dgram.from) \notin DOMAIN clients
    /\ faults < MaxFaults
    /\ faults' = faults + 1
    /\ rPc' = "read"
    /\ rxLog' = Logged("createFailed", 0)
    /\ UNCHANGED << rxKind, listener, dgram, packet, client, clientsMutex, clients,
                    files, now, rmPc, todo, cur >>
    /\ UNCHANGED << fnVars, sndVars >>

\* The client is new and os.Create fails: the error is printed, the mutex
\* unlocked and the loop continues.
RxCreateFail ==
    /\ RxRunning
    /\ rPc = "lookup"
    /\ ClientKey(dgram.from) \notin DOMAIN clients
    /\ faults < MaxFaults
    /\ faults' = faults + 1
    /\ clientsMutex' = "free"
    /\ rPc' = "read"
    /\ rxLog' = Logged("createFailed", 0)
    /\ UNCHANGED << rxKind, listener, dgram, packet, client, clients, files, now,
                    rmPc, todo, cur >>
    /\ UNCHANGED << fnVars, sndVars >>

\* clientsMutex.Unlock() in the receive task.
RxUnlock ==
    /\ RxRunning
    /\ rPc = "unlock"
    /\ clientsMutex' = "free"
    /\ rPc' = "write"
    /\ UNCHANGED << rxKind, listener, dgram, packet, client, clients, files, now,
                    rmPc, todo, cur, faults, rxLog >>
    /\ UNCHANGED << fnVars, sndVars >>

\* numSamples == 0: the loop continues.
RxSkipEmpty ==
    /\ RxRunning
    /\ rPc = "write"
    /\ Len(packet) \div 2 = 0
    /\ rPc' = "read"
    /\ rxLog' = Logged("empty", 0)
    /\ UNCHANGED << rxKind, listener, dgram, packet, client, clientsMutex, clients,
                    files, now, rmPc, todo, cur, faults >>
    /\ UNCHANGED << fnVars, sndVars >>

\* A receive task that files each packet's samples by the packet's sequence
\* number.
RxWrite_bySeq ==
    /\ RxRunning
    /\ rPc = "write"
    /\ Len(packet) \div 2 # 0
    /\ files[client].closed = 0
    /\ LET seq == dgram.bytes[3] * 256 + dgram.bytes[4]
           at == IF seq < Len(files[client].writes) THEN seq + 1
                 ELSE Len(files[client].writes) + 1
       IN  files' = [files EXCEPT ![client].writes =
                       SubSeq(@, 1, at - 1)
                       \o << [from |-> dgram.from,
                              samples |-> Runs(DecodeSamples(packet))] >>
                       \o SubSeq(@, at, Len(@))]
    /\ rPc' = "read"
    /\ rxLog' = Logged("written", Len(DecodeSamples(packet)))
    /\ UNCHANGED << rxKind, listener, dgram, packet, client, clientsMutex, clients,
                    now, rmPc, todo, cur, faults >>
    /\ UNCHANGED << fnVars, sndVars >>

\* The samples are decoded and client.encoder.Write appends them to the
\* client's file, which is open.
RxWrite ==
    /\ RxRunning
    /\ rPc = "write"
    /\ Len(packet) \div 2 # 0
    /\ files[client].closed = 0
    /\ files' = [files EXCEPT ![client].writes =
                   Append(@, [from |-> dgram.from, samples |-> Runs(DecodeSamples(packet))])]
    /\ rPc' = "read"
    /\ rxLog' = Logged("written", Len(DecodeSamples(packet)))
    /\ UNCHANGED << rxKind, listener, dgram, packet, client, clientsMutex, clients,
                    now, rmPc, todo, cur, faults >>
    /\ UNCHANGED << fnVars, sndVars >>

\* client.encoder.Write fails (the file has been closed, or the write
\* itself fails): the error is printed.
RxWriteFail ==
    /\ RxRunning
    /\ rPc = "write"
    /\ Len(packet) \div 2 # 0
    /\ \/ /\ files[client].closed > 0
          /\ UNCHANGED faults
       \/ /\ files[client].closed = 0
          /\ faults < MaxFaults
          /\ faults' = faults + 1
    /\ rPc' = "read"
    /\ rxLog' = Logged("writeFailed", 0)
    /\ UNCHANGED << rxKind, listener, dgram, packet, client, clientsMutex, clients,
                    files, now, rmPc, todo, cur >>
    /\ UNCHANGED << fnVars, sndVars >>

\* <-sigs returns in the receiver's main.
RmSignal ==
    /\ rmPc = "wait"
    /\ rmPc' = IF rxKind = "wav" THEN "closeListener" ELSE "deferClose"
    /\ UNCHANGED << rxKind, listener, rPc, dgram, packet, client, clientsMutex,
                    clients, files, now, todo, cur, faults, rxLog >>
    /\ UNCHANGED << fnVars, sndVars >>

\* listener.Close(), "to stop the reader goroutine".
RmCloseListener ==
    /\ rmPc = "closeListener"
    /\ listener' = "closed"
    /\ rmPc' = "lock"
    /\ UNCHANGED << rxKind, rPc, dgram, packet, client, clientsMutex, clients, files,
                    now, todo, cur, faults, rxLog >>
    /\ UNCHANGED << fnVars, sndVars >>

\* clientsMutex.Lock() in main; the range loop then starts over the
\* clients in the map.
RmLock ==
    /\ rmPc = "lock"
    /\ clientsMutex = "free"
    /\ clientsMutex' = "main"
    /\ todo' = DOMAIN clients
    /\ rmPc' = "range"
    /\ UNCHANGED << rxKind, listener, rPc, dgram, packet, client, clients, files,
                    now, cur, faults, rxLog >>
    /\ UNCHANGED << fnVars, sndVars >>

\* The range loop takes its next client, in any order, or ends.
RmRange ==
    /\ rmPc = "range"
    /\ IF todo = {}
       THEN /\ rmPc' = "deferUnlock"
            /\ UNCHANGED << todo, cur >>
       ELSE /\ \E k \in todo :
                 /\ cur' = k
                 /\ todo' = todo \ {k}
            /\ rmPc' = "encClose"
    /\ UNCHANGED << rxKind, listener, rPc, dgram, packet, client, clientsMutex,
                    clients, files, now, faults, rxLog >>
    /\ UNCHANGED << fnVars, sndVars >>

\* The outcome ok of a close call: a failure is one of the faults.
CloseOutcome(ok) ==
    /\ ok \/ faults < MaxFaults
    /\ faults' = IF ok THEN faults ELSE faults + 1

\* A cleanup that stops at the first encoder it cannot finalize.
RmEncClose_stopOnError ==
    /\ rmPc = "encClose"
    /\ \E ok \in BOOLEAN :
         /\ CloseOutcome(ok)
         /\ files' = [files EXCEPT ![clients[cur]] =
                        [@ EXCEPT !.finalized = @ + 1,
                                  !.errors = @ + (IF ok THEN 0 ELSE 1)]]
         /\ rmPc' = IF ok THEN "fileClose" ELSE "deferUnlock"
    /\ UNCHANGED << rxKind, listener, rPc, dgram, packet, client, clientsMutex,
                    clients, now, todo, cur, rxLog >>
    /\ UNCHANGED << fnVars, sndVars >>

\* client.encoder.Close(); an error is printed, and the loop goes on.
RmEncClose ==
    /\ rmPc = "encClose"
    /\ \E ok \in BOOLEAN :
         /\ CloseOutcome(ok)
         /\ files' = [files EXCEPT ![clients[cur]] =
                        [@ EXCEPT !.finalized = @ + 1,
                                  !.errors = @ + (IF ok THEN 0 ELSE 1)]]
    /\ rmPc' = "fileClose"
    /\ UNCHANGED << rxKind, listener, rPc, dgram, packet, client, clientsMutex,
                    clients, now, todo, cur, rxLog >>
    /\ UNCHANGED << fnVars, sndVars >>

\* client.file.Close(); an error is printed, and the loop goes on.
RmFileClose ==
    /\ rmPc = "fileClose"
    /\ \E ok \in BOOLEAN :
         /\ CloseOutcome(ok)
         /\ files' = [files EXCEPT ![clients[cur]] =
                        [@ EXCEPT !.closed = @ + 1,
                                  !.errors = @ + (IF ok THEN 0 ELSE 1)]]
    /\ rmPc' = "range"
    /\ UNCHANGED << rxKind, listener, rPc, dgram, packet, client, clientsMutex,
                    clients, now, todo, cur, rxLog >>
    /\ UNCHANGED << fnVars, sndVars >>

\* main returns: the deferred clientsMutex.Unlock() runs first.
RmDeferUnlock ==
    /\ rmPc = "deferUnlock"
    /\ clientsMutex' = "free"
    /\ rmPc' = "deferClose"
    /\ UNCHANGED << rxKind, listener, rPc, dgram, packet, client, clients, files,
                    now, todo, cur, faults, rxLog >>
    /\ UNCHANGED << fnVars, sndVars >>

\* Then the deferred listener.Close() runs.
RmDeferClose ==
    /\ rmPc = "deferClose"
    /\ listener' = "closed"
    /\ rmPc' = "exit"
    /\ UNCHANGED << rxKind, rPc, dgram, packet, client, clientsMutex, clients, files,
                    now, todo, cur, faults, rxLog >>
    /\ UNCHANGED << fnVars, sndVars >>

\* main has returned: the process exits, and with it the receive task,
\* wherever it is.
RmExit ==
    /\ rmPc = "exit"
    /\ rmPc' = "exited"
    /\ UNCHANGED << rxKind, listener, rPc, dgram, packet, client, clientsMutex,
                    clients, files, now, todo, cur, faults, rxLog >>
    /\ UNCHANGED << fnVars, sndVars >>

\* ------------------------------------------------------------------------
\* SpecPayload: the payloaders on bounded inputs
\* ------------------------------------------------------------------------

MaxMtu == 4
MaxPcmLen == 4
MaxMuLen == 45

\* Byte values the PCM payloads are drawn from.
PcmBytes == {0, 1, 128, 255}

\* Sample values the mu-law payloads carry at the offsets the encoder reads.
MuSamples == {0, -1, 1000, 32767, -32768}

\* The byte at 0-based offset j of a little-endian PCM payload whose samples
\* at offsets 0, 2*step, 4*step, ... are smp[0], smp[1], ...; the bytes the
\* encoder skips hold a filler that depends on the offset.
MuByte(smp, j) ==
    LET k == j \div (2 * muLawStep)
        r == j % (2 * muLawStep)
    IN  IF r = 0 THEN U16(smp[k]) % 256
        ELSE IF r = 1 THEN U16(smp[k]) \div 256
        ELSE (7 * j + 3) % 256

MuPayload(n, smp) == [ j \in 1..n |-> MuByte(smp, j - 1) ]

RECURSIVE SeqsUpTo(_, _)
\* All sequences over S of length at most n.
SeqsUpTo(S, n) ==
    IF n = 0 THEN { << >> }
    ELSE LET shorter == SeqsUpTo(S, n - 1)
         IN  shorter \cup { Append(s, x) : s \in { t \in shorter : Len(t) = n - 1 }, x \in S }

InitPayload ==
    /\ fnMtu \in 1..MaxMtu
    /\ fnOut = << >>
    /\ fnPc = "call"
    /\ \/ /\ fnKind = "L16"
          /\ fnPayload \in SeqsUpTo(PcmBytes, MaxPcmLen)
       \/ /\ fnKind = "PCMU"
          /\ \E n \in 0..MaxMuLen :
               \E smp \in [ 0..(MaxMuLen \div (2 * muLawStep)) -> MuSamples ] :
                 fnPayload = MuPayload(n, smp)

\* A call of pcmPayloader.Payload.
CallPcmPayload ==
    /\ fnPc = "call"
    /\ fnKind = "L16"
    /\ fnOut' = pcmPayloader_Payload(fnMtu, fnPayload)
    /\ fnPc' = "ret"
    /\ UNCHANGED << fnKind, fnMtu, fnPayload >>
    /\ UNCHANGED << sndVars, rcvVars >>

\* A call of pcmToMuLawPayloader.Payload.
CallMuLawPayload ==
    /\ fnPc = "call"
    /\ fnKind = "PCMU"
    /\ fnOut' = pcmToMuLawPayloader_Payload(fnMtu, fnPayload)
    /\ fnPc' = "ret"
    /\ UNCHANGED << fnKind, fnMtu, fnPayload >>
    /\ UNCHANGED << sndVars, rcvVars >>

\* Every value of an int16.
Int16 == (0 - 32768)..32767

\* The arguments of a call of linearToMuLaw: any 16-bit sample.
InitMuLaw ==
    /\ fnKind = "linearToMuLaw"
    /\ fnMtu = 0
    /\ fnPayload \in Int16
    /\ fnOut = << >>
    /\ fnPc = "call"

\* A call of linearToMuLaw.
CallLinearToMuLaw ==
    /\ fnPc = "call"
    /\ fnKind = "linearToMuLaw"
    /\ fnOut' = linearToMuLaw(fnPayload)
    /\ fnPc' = "ret"
    /\ UNCHANGED << fnKind, fnMtu, fnPayload >>
    /\ UNCHANGED << sndVars, rcvVars >>

\* ------------------------------------------------------------------------
\* Specifications
\* ------------------------------------------------------------------------

NextMuLaw ==
    \/ CallLinearToMuLaw

InitMuLawSpec == InitMuLaw /\ SndIdle /\ RcvIdle

SpecMuLaw == InitMuLawSpec /\ [][NextMuLaw]_vars

NextPayload ==
    \/ CallPcmPayload
    \/ CallMuLawPayload

InitPayloadSpec == InitPayload /\ SndIdle /\ RcvIdle

SpecPayload == InitPayloadSpec /\ [][NextPayload]_vars

NextSend ==
    \/ StreamReadFrame
    \/ StreamEnd
    \/ StreamReadError
    \/ WritePacketOk
    \/ WritePacketFail
    \/ ParecExit
    \/ MainSignal
    \/ MainKillFirefox
    \/ MainKillParec
    \/ MainUnload
    \/ MainExit

InitSend == InitSender(Variants, Starts, FALSE, MaxFrames, FramePatterns) /\ FnIdle /\ RcvIdle

SpecSend == InitSend /\ [][NextSend]_vars

\* What the Go scheduler guarantees of the sender: a task that can take its
\* next step takes it.  A read that waits for parec, a fault, parec's own
\* exit and the arrival of a signal are up to the environment.
FairSend ==
    /\ WF_vars(StreamEnd)
    /\ WF_vars(WritePacketOk \/ WritePacketFail)
    /\ WF_vars(MainKillFirefox \/ MainKillParec \/ MainUnload \/ MainExit)

SpecSendFair == SpecSend /\ FairSend

NextRecv ==
    \/ RxRead
    \/ RxReadClosed
    \/ RxReadError
    \/ RxInsert
    \/ RxParseFail
    \/ RxParseOk
    \/ RxLock
    \/ RxLookupHit
    \/ RxCreate
    \/ RxCreateFail
    \/ RxUnlock
    \/ RxSkipEmpty
    \/ RxWrite
    \/ RxWriteFail
    \/ RmSignal
    \/ RmCloseListener
    \/ RmLock
    \/ RmRange
    \/ RmEncClose
    \/ RmFileClose
    \/ RmDeferUnlock
    \/ RmDeferClose
    \/ RmExit

InitRecv == InitReceiver({"wav", "print"}) /\ FnIdle /\ SndIdle

SpecRecv == InitRecv /\ [][NextRecv]_vars

\* One second of silence through the L16 sender to the WAV receiver, over a
\* network that delivers every datagram written, in order.
\* The packetizer starts from 0 or from 65532; from there the sequence
\* number wraps within the run.
InitE2E ==
    /\ InitSender({"L16"}, { st \in Starts : st.seq < 65533 }, TRUE, E2EFrames, {"silence"})
    /\ InitReceiver({"wav"})
    /\ FnIdle

NextE2E ==
    \/ StreamReadFrame
    \/ WritePacketOk
    \/ RxReadNet
    \/ RxParseOk
    \/ RxLock
    \/ RxLookupHit
    \/ RxCreate
    \/ RxUnlock
    \/ RxWrite

SpecE2E == InitE2E /\ [][NextE2E]_vars

\* ------------------------------------------------------------------------
\* Properties of the senders (SpecSend)
\* ------------------------------------------------------------------------

\* The headers of the packets the streaming task has made so far, in the
\* order it hands them to conn.Write: those handed over, then those of the
\* current frame still to go.
Emitted ==
    [ i \in 1..(Len(wire) + Len(packets)) |->
        IF i <= Len(wire)
        THEN [seq |-> wire[i].seq, ts |-> wire[i].ts, frame |-> wire[i].frame]
        ELSE [seq |-> packets[i - Len(wire)].seq,
              ts |-> packets[i - Len(wire)].ts,
              frame |-> packets[i - Len(wire)].frame] ]

\* C1: the sequence numbers of the packets a sender emits are contiguous
\* modulo 2^16: each packet's number is its predecessor's plus one, between
\* the fragments of a frame and across frames, whatever the random start.
C1_SeqContiguous ==
    \A i \in 1..(Len(Emitted) - 1) :
        Emitted[i + 1].seq = (Emitted[i].seq + 1) % Pow16

\* C1 happens: a fragmented frame ends on 65535 and the next frame starts on 0.
C1_Witness ==
    \E i \in 1..(Len(wire) - 1) :
        /\ wire[i].seq = Pow16 - 1
        /\ wire[i + 1].seq = 0
        /\ wire[i + 1].frame = wire[i].frame + 1
        /\ i >= 2
        /\ wire[i - 1].frame = wire[i].frame

\* The timestamp step of a 20 ms frame: 960 ticks for L16, 160 for mu-law.
FrameStep == IF variant = "L16" THEN 960 ELSE 160

\* C2: all packets of one frame carry the same timestamp, and the timestamps
\* of consecutive full frames differ by exactly 960 (L16) or 160 (mu-law)
\* modulo 2^32.
C2_TimestampPerFrame ==
    \A i, j \in 1..Len(Emitted) :
        /\ Emitted[i].frame = Emitted[j].frame => Emitted[i].ts = Emitted[j].ts
        /\ Emitted[j].frame = Emitted[i].frame + 1
             => Emitted[j].ts = Add32(Emitted[i].ts, FrameStep)

\* C2 happens: a frame sent in several packets, and the next frame's
\* timestamp past the 32-bit wrap.
C2_Witness ==
    \E i, j, k \in 1..Len(wire) :
        /\ i # k
        /\ wire[i].frame = wire[k].frame
        /\ wire[j].frame = wire[i].frame + 1
        /\ wire[i].ts.hi = Pow16 - 1
        /\ wire[j].ts.hi = 0

\* The samples the payloads of a frame's packets carry, in RTP clock ticks:
\* L16 carries bitDepth/8 bytes per channel and tick, mu-law one byte a tick.
SamplesCarried(v, nbytes) ==
    IF v = "L16" THEN nbytes \div ((bitDepth(v) \div 8) * channels(v)) ELSE nbytes

\* C3: for every full frame the timestamp advances by the number of encoded
\* samples its packets carry; for the mu-law sender, by the number of mu-law
\* bytes the payloader made of the frame.
C3_StepIsSamplesCarried ==
    \A k \in 1..Len(frames) :
        LET after == IF k < Len(frames) THEN frames[k + 1].ts ELSE timestamp
        IN  after = Add32(frames[k].ts, SamplesCarried(variant, frames[k].bytes))

\* A step in which conn.Write fails.
WriteFails == Len(wire') = Len(wire) + 1 /\ ~wire'[Len(wire')].ok

\* A step in which the streaming task ends.
TaskEnds == sPc \notin {"ended", "failed"} /\ sPc' \in {"ended", "failed"}

\* C11: a failed UDP write does not stop the stream: the task goes on with
\* the remaining packets of the frame, or with reading the next frame, the
\* socket stays open, and the task ends only at a read of the capture
\* input, at its end or at a read fault.
C11_WriteFailureContinues ==
    [][ /\ WriteFails =>
             /\ packets' = Tail(packets)
             /\ sPc' = (IF Len(packets') = 0 THEN "read" ELSE "send")
             /\ connOpen' = connOpen
             /\ seqNo' = seqNo
             /\ timestamp' = timestamp
        /\ TaskEnds => (sPc = "read" /\ wire' = wire)
      ]_vars

\* C11 happens: a write failed, a later packet of the same frame was written
\* and so was a packet of the next frame.
C11_Witness ==
    \E i, j, k \in 1..Len(wire) :
        /\ i < j
        /\ j < k
        /\ ~wire[i].ok
        /\ wire[j].ok
        /\ wire[j].frame = wire[i].frame
        /\ wire[k].ok
        /\ wire[k].frame = wire[i].frame + 1

\* C11 as first stated: only the end of the capture input ends the task.
C11_OnlyEndOfInputEnds ==
    [][ /\ WriteFails => (sPc' \in {"read", "send"} /\ connOpen' = connOpen)
        /\ TaskEnds => sPc' = "ended"
      ]_vars

\* The write attempts made for the packets of frame f.
AttemptsOf(f) == { i \in 1..Len(wire) : wire[i].frame = f }

\* C21: every packet is handed to conn.Write exactly once, in the order of
\* the sequence numbers (each attempt has the successor, modulo 2^16, of the
\* sequence number of the attempt before it, whether that one failed or
\* not, so a failed packet is the only one missing from what was sent and
\* none is attempted twice), and all packets of a frame are attempted before
\* the next frame is read.
C21_EachPacketOnceInOrder ==
    /\ \A i \in 2..Len(wire) :
          /\ wire[i].seq = (wire[i - 1].seq + 1) % Pow16
          /\ wire[i].frame >= wire[i - 1].frame
    /\ \A i, j \in 1..Len(wire) : wire[i].seq = wire[j].seq => i = j
    /\ \A i \in 1..Len(packets) :
          /\ packets[i].frame = Len(frames)
          /\ packets[i].seq = ((IF Len(wire) = 0 THEN packets[1].seq - 1
                                 ELSE wire[Len(wire)].seq) + i) % Pow16
    /\ \A f \in 1..Len(frames) :
          Cardinality(AttemptsOf(f))
            = frames[f].npkts - (IF f = Len(frames) THEN Len(packets) ELSE 0)
    /\ sPc = "read" => packets = << >>

\* C21 happens: two frames were read and all their packets attempted; one
\* write failed and the attempt after it, with the next sequence number,
\* succeeded.
C21_Witness ==
    /\ Len(frames) = 2
    /\ sPc = "read"
    /\ Len(wire) = frames[1].npkts + frames[2].npkts
    /\ Len(wire) >= 4
    /\ \E i \in 1..(Len(wire) - 1) :
          /\ ~wire[i].ok
          /\ wire[i + 1].ok
          /\ wire[i + 1].seq = (wire[i].seq + 1) % Pow16

\* C12: when the capture stream ends with no bytes or with less than a
\* frame, the step that reads it emits no packet, ends the task as at
\* end-of-stream and closes the UDP socket, and leaves sequence number and
\* timestamp as they were; the frames packetized are the full frames only.
C12_PartialFrameEndsStream ==
    [][ (sPc = "read" /\ parec # "running" /\ pipeFrames = 0 /\ sPc' = "ended")
          => /\ connOpen' = FALSE
             /\ seqNo' = seqNo
             /\ timestamp' = timestamp
             /\ wire' = wire
             /\ packets' = << >>
             /\ frames' = frames
             /\ net' = net
      ]_vars

\* C12 happens: the stream ended with a partial frame after at least one
\* full frame was sent, and the task has ended with the socket closed.
C12_Witness ==
    /\ sPc = "ended"
    /\ pipeTail
    /\ ~connOpen
    /\ Len(wire) >= 1
    /\ mPc = "wait"

\* C13: a read fault on the capture stream that is not end-of-stream is
\* surfaced to the caller of startStreaming: once the streaming task has
\* ended on such a fault, main, which called startStreaming, gets to know
\* and leaves its wait for a signal.
C13_FaultSurfaced == (sPc = "failed") ~> (mPc # "wait")

\* The SSRC and payload type of every packet the streaming task has made so
\* far: those handed to conn.Write, then those of the current frame to go.
Stamps ==
    [ i \in 1..(Len(wire) + Len(packets)) |->
        IF i <= Len(wire)
        THEN [ssrc |-> wire[i].ssrc, pt |-> wire[i].pt]
        ELSE [ssrc |-> packets[i - Len(wire)].ssrc,
              pt |-> packets[i - Len(wire)].pt] ]

\* C20: the SSRC and the payload type are chosen once, when the packetizer
\* is constructed, and every packet of the stream carries them: all packets
\* of all frames and fragments have the SSRC the packetizer was built with
\* and the payload type of the sender, hence the same ones as each other.
C20_SsrcAndPayloadTypeConstant ==
    \A i \in 1..Len(Stamps) :
       /\ Stamps[i].ssrc = ssrc
       /\ Stamps[i].pt = payloadType(variant)
       /\ Stamps[i] = Stamps[1]

\* C20 happens: a sender has sent the fragments of one frame and is sending
\* those of the next.
C20_Witness ==
    /\ ssrc # U32(0, 0)
    /\ Len(frames) >= 2
    /\ Len(wire) >= 4
    /\ \E i \in 1..Len(wire) : wire[i].frame = 1 /\ ~wire[i].marker
    /\ \E i \in 1..Len(wire) : wire[i].frame = 2
    /\ Len(packets) > 0

\* C10: when the sender's process exits, the streaming task's deferred
\* conn.Close has run: the UDP socket is closed.
C10_SocketClosedAtExit == mPc = "exited" => ~connOpen

\* ------------------------------------------------------------------------
\* Properties of the payloaders (SpecPayload)
\* ------------------------------------------------------------------------

\* The bytes a payloader has to deliver: the payload itself for L16, its
\* mu-law encoding for PCMU.
Deliverable == IF fnKind = "L16" THEN fnPayload ELSE MuLawEncode(fnPayload)

\* C4: for both payloaders every chunk returned is at most MTU bytes long,
\* and the chunks concatenated in order are exactly the whole payload (its
\* mu-law encoding for the mu-law sender, the input bytes for L16).
C4_ChunksCoverPayload ==
    fnPc = "ret" =>
        /\ \A i \in 1..Len(fnOut) : Len(fnOut[i]) <= fnMtu
        /\ Flatten(fnOut) = Deliverable

\* C4 happens: a payload split into several chunks, the last one short.
C4_Witness ==
    /\ fnPc = "ret"
    /\ fnKind = "L16"
    /\ Len(fnOut) >= 2
    /\ Len(fnOut[Len(fnOut)]) < fnMtu
    /\ Len(fnOut[1]) = fnMtu

\* C5: pcmPayloader.Payload never splits a sample: for a payload of whole
\* 16-bit samples and any MTU, every chunk boundary is at an even byte
\* offset of the payload.
C5_BoundariesEven ==
    (fnPc = "ret" /\ fnKind = "L16" /\ Len(fnPayload) % 2 = 0) =>
        \A k \in 1..(Len(fnOut) - 1) : SumLen(SubSeq(fnOut, 1, k)) % 2 = 0

\* ------------------------------------------------------------------------
\* Properties of linearToMuLaw (SpecMuLaw)
\* ------------------------------------------------------------------------

\* The standard G.711 mu-law expansion of the byte u: complement, then sign,
\* exponent and mantissa; ((mantissa << 3) + 0x84) << exponent, less 0x84.
muLawToLinear(u) ==
    LET c == 255 - u
        exponent == (c \div 16) % 8
        mantissa == c % 16
        magnitude == (mantissa * 8 + bias) * Pow2(exponent) - bias
    IN  IF c \div 128 = 1 THEN 0 - magnitude ELSE magnitude

\* |x|
Abs(x) == IF x < 0 THEN 0 - x ELSE x

\* The largest magnitude G.711 mu-law encodes without clipping.
ClipLevel == 32635

\* The segment of a magnitude m (clipped): the position of the highest set
\* bit of m + 0x84, counted from bit 7.
Segment(m) == CHOOSE e \in 0..7 : (m + bias) \div Pow2(e + 7) = 1

\* The codec's quantization error bound for the sample s: half a step of
\* its segment, 2^(segment+2), and for a magnitude above the clip level the
\* amount it is clipped by.
QuantBound(s) ==
    LET m == IF Abs(s) > ClipLevel THEN ClipLevel ELSE Abs(s)
    IN  Pow2(Segment(m) + 2) + (Abs(s) - m)

\* C17: for every 16-bit sample s, the standard mu-law expansion of
\* linearToMuLaw(s) is within the quantization error bound of s's segment,
\* the clipped extremes included.
C17_RoundTripWithinBound ==
    fnPc = "ret" =>
        /\ fnOut \in 0..255
        /\ Abs(muLawToLinear(fnOut) - fnPayload) <= QuantBound(fnPayload)

\* C25: for every 16-bit sample, -32768 and 0 included, the exponent search
\* of linearToMuLaw ends with an exponent in 0..7, which the returned byte
\* carries complemented in its bits 4..6, and the complement of the byte's
\* bit 7 is set exactly when the sample is negative.
C25_ExponentAndSign ==
    fnPc = "ret" =>
        LET exponent == ExponentLoop(Biased(fnPayload), 16384, 7)
        IN  /\ exponent \in 0..7
            /\ fnOut \in 0..255
            /\ ((255 - fnOut) \div 16) % 8 = exponent
            /\ ((255 - fnOut) \div 128 = 1) <=> (fnPayload < 0)

\* C25 happens: the sample whose negation overflows has been encoded.
C25_Witness ==
    /\ fnPc = "ret"
    /\ fnPayload = 0 - 32768
    /\ ToInt16(0 - fnPayload) = fnPayload
    /\ fnOut = 127

\* ------------------------------------------------------------------------
\* Properties of the receivers (SpecRecv)
\* ------------------------------------------------------------------------

\* C6: the WAV receiver keeps the streams of two source addresses apart:
\* each address has its own container, and no container holds samples that
\* came from two addresses, however their packets interleave.
C6_SeparateContainers ==
    rxKind = "wav" =>
        \A n1, n2 \in DOMAIN files :
            \A i \in 1..Len(files[n1].writes), j \in 1..Len(files[n2].writes) :
                (files[n1].writes[i].from = files[n2].writes[j].from) <=> (n1 = n2)

\* C6 happens: packets of two addresses interleaved, all written.
C6_Witness ==
    /\ rxKind = "wav"
    /\ Len(rxLog) = 3
    /\ \A i \in 1..3 : rxLog[i].what = "written"
    /\ rxLog[1].from = rxLog[3].from
    /\ rxLog[1].from # rxLog[2].from
    /\ Cardinality(DOMAIN files) = 2

\* C7: a datagram that fails RTP parsing is dropped and the receive loop
\* goes on: the step that handles it leaves every container and the map as
\* they are, records the drop, and returns to awaiting the next datagram.
C7_MalformedDropped ==
    [][ (rPc = "parse" /\ ~Unmarshal(dgram.bytes).ok /\ rPc' # rPc)
          => /\ rPc' = "read"
             /\ files' = files
             /\ clients' = clients
             /\ listener' = listener
             /\ rxLog' = Append(rxLog, [from |-> dgram.from, what |-> "dropped", n |-> 0])
      ]_vars

\* C7 happens: a datagram was dropped and a later, valid one was processed.
C7_Witness ==
    \E i, j \in 1..Len(rxLog) :
        /\ i < j
        /\ rxLog[i].what = "dropped"
        /\ rxLog[j].what = "written"
        /\ rxLog[j].n > 0

\* C14: in every receiver, once the listening socket is closed the receive
\* task takes the read error as stop: after a read has failed on the closed
\* socket the task has left its read loop and does not read again.
C14_ClosedReadStops ==
    \A i \in 1..Len(rxLog) : rxLog[i].what = "readClosed" => rPc = "done"

\* C15: in the WAV receiver's shutdown, an encoder that cannot be finalized
\* or a file that cannot be closed does not keep the cleanup from the other
\* peers: for every peer of the map that the range loop is done with, and
\* at its end for every peer of the map, both encoder.Close and file.Close
\* have been called, whatever errors they returned.
C15_CleanupDespiteErrors ==
    (rxKind = "wav" /\ rmPc \in {"range", "deferUnlock"}) =>
        \A k \in DOMAIN clients \ todo :
            /\ files[clients[k]].finalized = 1
            /\ files[clients[k]].closed = 1

\* C15 happens: the cleanup of two peers is done, and a close call of one of
\* them returned an error.
C15_Witness ==
    /\ rxKind = "wav"
    /\ rmPc = "deferUnlock"
    /\ Cardinality(DOMAIN clients) >= 2
    /\ \E k \in DOMAIN clients : files[clients[k]].errors >= 1
    /\ \A k \in DOMAIN clients : files[clients[k]].closed = 1

\* A step of the receive task; a step of the receiver's main.
RxStep == rPc' # rPc \/ rxLog' # rxLog
RmStep == rmPc' # rmPc

\* C16: in the WAV receiver the peer map is read and written only by the
\* task that holds the mutex, and the mutex is held for the lookup-or-insert
\* only: the task that holds it creates, writes or closes no file and reads
\* no datagram.
C16_MutexNotAcrossIO ==
    [][ rxKind = "wav" =>
          /\ (clients' # clients) => clientsMutex = "rx"
          /\ (rPc = "lookup" /\ RxStep) => clientsMutex = "rx"
          /\ (rmPc = "range" /\ RmStep) => clientsMutex = "main"
          /\ (files' # files /\ RxStep) => clientsMutex # "rx"
          /\ (files' # files /\ RmStep) => clientsMutex # "main"
          /\ (rPc = "read" /\ RxStep) => clientsMutex # "rx"
      ]_vars

\* The first half of C16 alone: the map is read and written under the mutex.
MapUnderMutex ==
    [][ rxKind = "wav" =>
          /\ (clients' # clients) => clientsMutex = "rx"
          /\ (rPc = "lookup" /\ RxStep) => clientsMutex = "rx"
          /\ (rmPc = "range" /\ RmStep) => clientsMutex = "main"
          /\ (rPc = "read" /\ RxStep) => clientsMutex # "rx"
      ]_vars

\* C18: in the WAV receiver a peer record is made at the first valid packet
\* of an address and is never replaced or removed: the map has one record
\* and one file per address seen, a record keeps its file, a file keeps what
\* was written to it, and a record is only added for the address of a
\* datagram that parsed.
C18_OneRecordPerAddress ==
    /\ [](rxKind = "wav" =>
            /\ Cardinality(DOMAIN files) = Cardinality(DOMAIN clients)
            /\ \A k \in DOMAIN clients : clients[k] \in DOMAIN files
            /\ \A k1, k2 \in DOMAIN clients : clients[k1] = clients[k2] => k1 = k2)
    /\ [][ rxKind = "wav" =>
             /\ \A k \in DOMAIN clients :
                   k \in DOMAIN clients' /\ clients'[k] = clients[k]
             /\ \A name \in DOMAIN files :
                   /\ name \in DOMAIN files'
                   /\ Len(files'[name].writes) >= Len(files[name].writes)
                   /\ SubSeq(files'[name].writes, 1, Len(files[name].writes))
                        = files[name].writes
             /\ clients' # clients =>
                   /\ Unmarshal(dgram.bytes).ok
                   /\ DOMAIN clients' = DOMAIN clients \cup { AddrString(dgram.from) }
         ]_vars

\* C18 happens: two peers in the map, and a second packet of one of them
\* written to the file its first packet made.
C18_Witness ==
    /\ rxKind = "wav"
    /\ Cardinality(DOMAIN clients) = 2
    /\ \E k \in DOMAIN clients : Len(files[clients[k]].writes) = 2

\* What the datagram in hand adds to a file: its source and the samples of
\* its payload.
Arrived ==
    [from |-> dgram.from,
     samples |-> Runs(DecodeSamples(Unmarshal(dgram.bytes).payload))]

\* C19: the WAV receiver appends each valid packet's samples to its peer's
\* container in arrival order, whatever the packet's sequence number and
\* timestamp: a step of the receive task that writes puts exactly the
\* samples of the datagram in hand at the end of the file of its address and
\* changes nothing else of any file, be the datagram late, early or a
\* duplicate.
C19_ArrivalOrderAppend ==
    [][ (rxKind = "wav" /\ RxStep /\ rPc = "write"
           /\ rxLog'[Len(rxLog')].what = "written")
          => /\ AddrString(dgram.from) \in DOMAIN clients
             /\ files' = [files EXCEPT ![clients[AddrString(dgram.from)]].writes =
                            Append(@, Arrived)]
      ]_vars

\* C19 happens: of one address a packet, then one with an earlier sequence
\* number, then the first one again, all three in the file in that order.
C19_Witness ==
    /\ rxKind = "wav"
    /\ \E name \in DOMAIN files :
         /\ Len(files[name].writes) = 3
         /\ files[name].writes[1].samples = Runs(<< 1, 0 - 2 >>)
         /\ files[name].writes[2].samples = Runs(<< 0 - 32768 >>)
         /\ files[name].writes[3] = files[name].writes[1]

\* A step in which the receive task calls client.encoder.Write.
EncoderWrite ==
    /\ rPc = "write"
    /\ RxStep
    /\ rxLog'[Len(rxLog')].what \in {"written", "writeFailed"}

\* C22: in the WAV receiver, however the shutdown sequence and the receive
\* task interleave, the receive task calls the encoder's Write for a peer
\* only while the shutdown cleanup has closed neither that peer's encoder
\* nor its file.
C22_NoWriteAfterClose ==
    [][ (rxKind = "wav" /\ EncoderWrite)
          => (files[client].finalized = 0 /\ files[client].closed = 0) ]_vars

\* A valid RTP packet has been received from the address with key k: the
\* datagram in hand is one, or an earlier datagram of the address got past
\* the parsing.
ValidReceivedFrom(k) ==
    \/ /\ dgram # NoDgram
       /\ ClientKey(dgram.from) = k
       /\ Unmarshal(dgram.bytes).ok
    \/ \E i \in 1..Len(rxLog) :
          /\ rxLog[i].what \notin {"dropped", "readClosed"}
          /\ ClientKey(rxLog[i].from) = k

\* C23: in every receiver, an address is in the peer map only when a valid
\* RTP packet has been received from it: a datagram that fails the parsing
\* adds no entry.
C23_OnlyValidPeersRecorded ==
    \A k \in DOMAIN clients : ValidReceivedFrom(k)

\* A step in which the receive task's os.Create fails.
CreateFails ==
    /\ rPc = "lookup"
    /\ RxStep
    /\ rxLog' = Append(rxLog, [from |-> dgram.from, what |-> "createFailed", n |-> 0])

\* C24: in the WAV receiver, when the file of a new address cannot be
\* created the packet is dropped (nothing is written, no file is added), no
\* record is put in the map, and the mutex is released as the loop goes on
\* to the next read: the receive task is never at its read holding the
\* mutex.  The address is still new to the next packet from it, for which
\* the creation is attempted again: the lookup of an address that is not in
\* the map always ends in a created file or a failed creation.
C24_CreateFailureReleasesMutex ==
    /\ [](rxKind = "wav" => (rPc = "read" => clientsMutex # "rx"))
    /\ [][ rxKind = "wav" =>
             /\ CreateFails =>
                   /\ clientsMutex = "rx"
                   /\ clientsMutex' = "free"
                   /\ rPc' = "read"
                   /\ clients' = clients
                   /\ files' = files
                   /\ AddrString(dgram.from) \notin DOMAIN clients'
             /\ (rPc = "lookup" /\ RxStep /\ AddrString(dgram.from) \notin DOMAIN clients)
                   => \/ CreateFails
                      \/ /\ AddrString(dgram.from) \in DOMAIN clients'
                         /\ clients'[AddrString(dgram.from)] \notin DOMAIN files
                         /\ clients'[AddrString(dgram.from)] \in DOMAIN files'
         ]_vars

\* C24 happens: the creation failed for a packet of an address, and a later
\* packet of the same address had its file created and was written to it.
C24_Witness ==
    /\ rxKind = "wav"
    /\ \E i, j \in 1..Len(rxLog) :
          /\ i < j
          /\ rxLog[i].what = "createFailed"
          /\ rxLog[j].what = "written"
          /\ rxLog[j].from = rxLog[i].from
          /\ AddrString(rxLog[i].from) \in DOMAIN clients
          /\ \A h \in 1..(j - 1) : rxLog[h].from = rxLog[i].from => rxLog[h].what = "createFailed"

\* C9: when the WAV receiver's process exits, the container of every peer
\* that was put in the map has been finalized and closed exactly once.
C9_AllFinalizedAtExit ==
    (rxKind = "wav" /\ rmPc = "exited") =>
        \A k \in DOMAIN clients :
            /\ files[clients[k]].finalized = 1
            /\ files[clients[k]].closed = 1

\* ------------------------------------------------------------------------
\* Properties of sender and receiver together (SpecE2E)
\* ------------------------------------------------------------------------

\* Every packet of the frames read so far has been written, delivered and
\* handled by the receiver.
AllDelivered ==
    /\ sPc = "read"
    /\ packets = << >>
    /\ net = << >>
    /\ rPc = "read"

\* The payload lengths of the packets of one full L16 frame of 3840 bytes.
FrameLens == << 1488, 1488, 864 >>

====
